---- MODULE Spec2Model ----
(***************************************************************************)
(* The ShoppingList component (multi-list version): React state, the       *)
(* asynchronous handlers that call the remote store, and the two change    *)
(* feed subscriptions that mirror remote row changes into local state.     *)
(*                                                                         *)
(* A handler that awaits a remote call is three steps: the handler up to   *)
(* the await (the request is sent), the remote store executing the request *)
(* (rows change, feed events are emitted to the open channels), and the    *)
(* continuation after the await.  Feed events are handled one at a time,   *)
(* in the order of their channel, interleaved freely with everything else. *)
(* Text is a sequence of one-character strings.                            *)
(***************************************************************************)
EXTENDS Integers, Sequences, FiniteSets, TLC

\* ---------------------------------------------------------------- bounds
MaxClicks == 4      \* user events in one run (opening the picker apart)
MaxCalls == 1       \* mutations in flight at the same time (fetches apart)
MaxLen == 3         \* rows of an items sequence given to the grouping

\* ------------------------------------------------------------- constants
NULL == 0                                   \* null of string | null
CATEGORIES == <<"Padaria", "Bebidas">>      \* two of the fixed labels
TextInputs == {<<" ">>, <<" ", "a", " ">>}  \* what the user types in a name
QuantityInputs == {<<>>, <<"0">>, <<"-", "3">>, <<"2">>, <<"x">>}
SearchInputs == {<<>>, <<"p", "a">>}

\* ------------------------------------------------------------ text helpers
RECURSIVE trimStart(_)
trimStart(s) ==
  IF s # <<>> /\ s[1] = " " THEN trimStart(Tail(s)) ELSE s

RECURSIVE trimEnd(_)
trimEnd(s) ==
  IF s # <<>> /\ s[Len(s)] = " " THEN trimEnd(SubSeq(s, 1, Len(s) - 1)) ELSE s

trim(s) == trimEnd(trimStart(s))

Chars(label) ==
  IF label = "Padaria" THEN <<"P", "a", "d", "a", "r", "i", "a">>
  ELSE <<"B", "e", "b", "i", "d", "a", "s">>

lowerChar(c) == IF c = "P" THEN "p" ELSE IF c = "B" THEN "b" ELSE c

toLowerCase(s) == [i \in 1..Len(s) |-> lowerChar(s[i])]

includes(s, sub) ==
  \E i \in 0..(Len(s) - Len(sub)) : SubSeq(s, i + 1, i + Len(sub)) = sub

Digit(c) ==
  IF c = "0" THEN 0 ELSE IF c = "2" THEN 2 ELSE IF c = "3" THEN 3 ELSE -1

\* parseInt of the inputs above: an optional sign and one digit, else NaN.
NaN == [nan |-> TRUE, n |-> 0]
Num(n) == [nan |-> FALSE, n |-> n]

parseInt(s) ==
  IF Len(s) = 1 /\ Digit(s[1]) >= 0 THEN Num(Digit(s[1]))
  ELSE IF Len(s) = 2 /\ s[1] = "-" /\ Digit(s[2]) >= 0 THEN Num(-Digit(s[2]))
  ELSE NaN

\* --------------------------------------------------------- sequence helpers
RECURSIVE Reverse(_)
Reverse(s) == IF s = <<>> THEN <<>> ELSE Append(Reverse(Tail(s)), Head(s))

RemoveAt(s, i) == SubSeq(s, 1, i - 1) \o SubSeq(s, i + 1, Len(s))

Ids(s) == {s[i].id : i \in 1..Len(s)}

\* ------------------------------------------------------------------- state
VARIABLES
  dbLists,           \* remote table shopping_lists, in creation order
  dbItems,           \* remote table shopping_items, in creation order
  nextListId,        \* next identifier the store gives a list
  nextItemId,        \* next identifier the store gives an item
  lists,             \* useState: lists
  currentListId,     \* useState: currentListId (NULL or a list id)
  newListName,       \* useState: newListName
  editingListId,     \* useState: editingListId
  editingListName,   \* useState: editingListName
  items,             \* useState: items
  newItemName,       \* useState: newItemName
  newItemCategory,   \* useState: newItemCategory ("" when none chosen)
  newItemQuantity,   \* useState: newItemQuantity
  categoryOpen,      \* useState: categoryOpen
  categorySearch,    \* useState: categorySearch
  loading,           \* useState: loading
  listsQ,            \* events pending on channel shopping_lists_changes
  itemsQ,            \* events pending on channel shopping_items_changes
  tasks,             \* remote calls in flight, each with its continuation
  clicks,            \* user events handled so far (see MaxClicks)
  toasts             \* the notifications the last step showed

dbVars == <<dbLists, dbItems, nextListId, nextItemId>>
listForm == <<newListName, editingListId, editingListName>>
itemForm == <<newItemName, newItemCategory, newItemQuantity, categoryOpen,
              categorySearch>>
local == <<lists, currentListId, items, loading, listForm, itemForm>>
vars == <<dbVars, local, listsQ, itemsQ, tasks, clicks, toasts>>

\* ---------------------------------------------------------------- requests
Request(tbl, verb, col, key, row) ==
  [tbl |-> tbl, verb |-> verb, col |-> col, key |-> key, row |-> row]

NoRow == <<>>

Task(h, req, id, cur) ==
  [h |-> h, pc |-> "sent", req |-> req, id |-> id, cur |-> cur,
   error |-> FALSE, hasData |-> FALSE, data |-> <<>>]

\* One more user event, within the bound of the run.  Opening or closing
\* the category picker is not counted.
Click == clicks < MaxClicks /\ clicks' = clicks + 1

\* The two views rendered once loading is over.
ListsView == ~loading /\ currentListId = NULL
ItemsView == ~loading /\ currentListId # NULL

\* ------------------------------------------------------------------ fetches
fetchListsCall ==
  Task("fetchLists",
       Request("shopping_lists", "select", "", NULL, NoRow), NULL, NULL)

fetchItemsCall(listId) ==
  Task("fetchItems",
       Request("shopping_items", "select", "list_id", listId, NoRow),
       NULL, listId)

\* The two effects that depend on currentListId, run when it changes from
\* old to new: the channel of the old value is removed and, when the new
\* value is a list, a channel is opened and fetchItems is called.
EffectTasks(ts, old, new) ==
  IF new # old /\ new # NULL THEN Append(ts, fetchItemsCall(new)) ELSE ts

\* Mutant of EffectQueue: the channel of the previous list is left open.
EffectQueueKeeps(q, old, new) == q

EffectQueue(q, old, new) == IF new # old THEN <<>> ELSE q

\* ------------------------------------------------------------------- mount
Init ==
  /\ dbLists = <<[id |-> 1, name |-> <<"b">>]>>
  /\ dbItems = <<[id |-> 1, name |-> <<"b">>, category |-> "Padaria",
                  quantity |-> 1, bought |-> FALSE, list_id |-> 1]>>
  /\ nextListId = 2
  /\ nextItemId = 2
  /\ lists = <<>>
  /\ currentListId = NULL
  /\ newListName = <<>>
  /\ editingListId = NULL
  /\ editingListName = <<>>
  /\ items = <<>>
  /\ newItemName = <<>>
  /\ newItemCategory = ""
  /\ newItemQuantity = 1
  /\ categoryOpen = FALSE
  /\ categorySearch = <<>>
  /\ loading = TRUE
  /\ listsQ = <<>>
  /\ itemsQ = <<>>
  /\ tasks = <<fetchListsCall>>
  /\ clicks = 0
  /\ toasts = <<>>

\* ------------------------------------------------- form and view handlers
\* Each is one synchronous event handler of the rendered view.  A change
\* event of a text field carries a text other than the one displayed.
onChangeNewListName ==
  /\ Click
  /\ ListsView
  /\ \E v \in TextInputs \ {newListName} : newListName' = v
  /\ toasts' = <<>>
  /\ UNCHANGED <<dbVars, lists, currentListId, items, loading, editingListId,
                 editingListName, itemForm, listsQ, itemsQ, tasks>>

onClickEdit ==
  /\ Click
  /\ ListsView
  /\ \E i \in 1..Len(lists) :
       /\ editingListId # lists[i].id
       /\ editingListId' = lists[i].id
       /\ editingListName' = lists[i].name
  /\ toasts' = <<>>
  /\ UNCHANGED <<dbVars, lists, currentListId, items, loading, newListName,
                 itemForm, listsQ, itemsQ, tasks>>

onChangeEditingListName ==
  /\ Click
  /\ ListsView
  /\ editingListId \in Ids(lists)
  /\ \E v \in TextInputs \ {editingListName} : editingListName' = v
  /\ toasts' = <<>>
  /\ UNCHANGED <<dbVars, lists, currentListId, items, loading, newListName,
                 editingListId, itemForm, listsQ, itemsQ, tasks>>

onClickCancelEdit ==
  /\ Click
  /\ ListsView
  /\ editingListId \in Ids(lists)
  /\ editingListId' = NULL
  /\ editingListName' = <<>>
  /\ toasts' = <<>>
  /\ UNCHANGED <<dbVars, lists, currentListId, items, loading, newListName,
                 itemForm, listsQ, itemsQ, tasks>>

\* "Abrir Lista": setCurrentListId(list.id), then the effects of the change.
onClickOpenList ==
  /\ Click
  /\ ListsView
  /\ \E i \in 1..Len(lists) :
       /\ currentListId' = lists[i].id
       /\ tasks' = EffectTasks(tasks, currentListId, lists[i].id)
       /\ itemsQ' = EffectQueue(itemsQ, currentListId, lists[i].id)
       /\ toasts' = <<>>
  /\ UNCHANGED <<dbVars, lists, items, loading, listForm, itemForm, listsQ>>

\* Mutant of onClickBack: the calls in flight are aborted with the channel.
onClickBackAborts ==
  /\ Click
  /\ ItemsView
  /\ currentListId' = NULL
  /\ tasks' = <<>>
  /\ itemsQ' = EffectQueue(itemsQ, currentListId, NULL)
  /\ toasts' = <<>>
  /\ UNCHANGED <<dbVars, lists, items, loading, listForm, itemForm, listsQ>>

\* "Voltar": setCurrentListId(null); the items channel is removed.
onClickBack ==
  /\ Click
  /\ ItemsView
  /\ currentListId' = NULL
  /\ tasks' = EffectTasks(tasks, currentListId, NULL)
  /\ itemsQ' = EffectQueue(itemsQ, currentListId, NULL)
  /\ toasts' = <<>>
  /\ UNCHANGED <<dbVars, lists, items, loading, listForm, itemForm, listsQ>>

onChangeNewItemName ==
  /\ Click
  /\ ItemsView
  /\ \E v \in TextInputs \ {newItemName} : newItemName' = v
  /\ toasts' = <<>>
  /\ UNCHANGED <<dbVars, lists, currentListId, items, loading, listForm,
                 newItemCategory, newItemQuantity, categoryOpen,
                 categorySearch, listsQ, itemsQ, tasks>>

\* The quantity field: "" gives 1, otherwise parseInt, kept when positive.
quantityOf(value) ==
  IF value = <<>> THEN 1
  ELSE IF ~parseInt(value).nan /\ parseInt(value).n > 0
       THEN parseInt(value).n ELSE 1

onChangeQuantity ==
  /\ Click
  /\ ItemsView
  /\ \E value \in QuantityInputs : newItemQuantity' = quantityOf(value)
  /\ toasts' = <<>>
  /\ UNCHANGED <<dbVars, lists, currentListId, items, loading, listForm,
                 newItemName, newItemCategory, categoryOpen, categorySearch,
                 listsQ, itemsQ, tasks>>

onOpenChange ==
  /\ UNCHANGED clicks
  /\ ItemsView
  /\ categoryOpen' = ~categoryOpen
  /\ toasts' = <<>>
  /\ UNCHANGED <<dbVars, lists, currentListId, items, loading, listForm,
                 newItemName, newItemCategory, newItemQuantity,
                 categorySearch, listsQ, itemsQ, tasks>>

onValueChangeSearch ==
  /\ Click
  /\ ItemsView
  /\ categoryOpen
  /\ \E v \in SearchInputs \ {categorySearch} : categorySearch' = v
  /\ toasts' = <<>>
  /\ UNCHANGED <<dbVars, lists, currentListId, items, loading, listForm,
                 newItemName, newItemCategory, newItemQuantity, categoryOpen,
                 listsQ, itemsQ, tasks>>

\* The labels the picker offers under the current search text.
Offered(category) ==
  categorySearch = <<>>
  \/ includes(toLowerCase(Chars(category)), toLowerCase(categorySearch))

onSelectCategory ==
  /\ Click
  /\ ItemsView
  /\ categoryOpen
  /\ \E k \in 1..Len(CATEGORIES) :
       /\ Offered(CATEGORIES[k])
       /\ newItemCategory' =
            IF CATEGORIES[k] = newItemCategory THEN "" ELSE CATEGORIES[k]
  /\ categoryOpen' = FALSE
  /\ categorySearch' = <<>>
  /\ toasts' = <<>>
  /\ UNCHANGED <<dbVars, lists, currentListId, items, loading, listForm,
                 newItemName, newItemQuantity, listsQ, itemsQ, tasks>>

\* --------------------------------------------- handlers up to their await
\* The handlers' calls in flight, the fetches of the effects apart.
InFlight ==
  Cardinality({i \in 1..Len(tasks) :
     tasks[i].h \notin {"fetchLists", "fetchItems"}})

\* Mutant of createList: the name is tested and sent without trim().
createListUntrimmed ==
  /\ Click
  /\ ListsView
  /\ IF newListName = <<>>
     THEN /\ toasts' = <<"Nome obrigatorio">>
          /\ UNCHANGED tasks
     ELSE LET req == Request("shopping_lists", "insert", "", NULL,
                             [name |-> newListName])
          IN /\ InFlight < MaxCalls
             /\ tasks' = Append(tasks, Task("createList", req, NULL, NULL))
             /\ toasts' = <<>>
  /\ UNCHANGED <<dbVars, local, listsQ, itemsQ>>

createList ==
  /\ Click
  /\ ListsView
  /\ IF trim(newListName) = <<>>
     THEN /\ toasts' = <<"Nome obrigatorio">>
          /\ UNCHANGED tasks
     ELSE LET req == Request("shopping_lists", "insert", "", NULL,
                             [name |-> trim(newListName)])
          IN /\ InFlight < MaxCalls
             /\ tasks' = Append(tasks, Task("createList", req, NULL, NULL))
             /\ toasts' = <<>>
  /\ UNCHANGED <<dbVars, local, listsQ, itemsQ>>

updateList ==
  /\ Click
  /\ ListsView
  /\ \E i \in 1..Len(lists) :
       /\ editingListId = lists[i].id
       /\ IF trim(editingListName) = <<>>
          THEN /\ toasts' = <<"Nome obrigatorio">>
               /\ UNCHANGED tasks
          ELSE LET req == Request("shopping_lists", "update", "id",
                                  lists[i].id,
                                  [name |-> trim(editingListName)])
               IN /\ InFlight < MaxCalls
                  /\ tasks' = Append(tasks,
                       Task("updateList", req, lists[i].id, NULL))
                  /\ toasts' = <<>>
  /\ UNCHANGED <<dbVars, local, listsQ, itemsQ>>

\* deleteList(id) up to its first await; the render it was created in is
\* the one whose currentListId it will compare with id afterwards.
\* Mutant of deleteItemsOfList: the first request deletes the list row.
deleteItemsOfListAsRow(id) ==
  Request("shopping_lists", "delete", "id", id, NoRow)

deleteItemsOfList(id) ==
  Request("shopping_items", "delete", "list_id", id, NoRow)

deleteListRow(id) == Request("shopping_lists", "delete", "id", id, NoRow)

deleteList ==
  /\ Click
  /\ ListsView
  /\ InFlight < MaxCalls
  /\ \E i \in 1..Len(lists) :
       /\ editingListId # lists[i].id
       /\ tasks' = Append(tasks,
            Task("deleteList", deleteItemsOfList(lists[i].id), lists[i].id,
                 currentListId))
       /\ toasts' = <<>>
  /\ UNCHANGED <<dbVars, local, listsQ, itemsQ>>

\* Mutant of addItemRejects: the name is tested without trim().
addItemRejectsUntrimmed ==
  newItemName = <<>> \/ newItemCategory = "" \/ currentListId = NULL

addItemRejects ==
  trim(newItemName) = <<>> \/ newItemCategory = "" \/ currentListId = NULL

\* Mutant of addItemInsert: the name is sent as typed.
addItemInsertUntrimmed ==
  Request("shopping_items", "insert", "", NULL,
          [name |-> newItemName,
           category |-> newItemCategory,
           quantity |-> newItemQuantity,
           list_id |-> currentListId,
           bought |-> FALSE])

addItemInsert ==
  Request("shopping_items", "insert", "", NULL,
          [name |-> trim(newItemName),
           category |-> newItemCategory,
           quantity |-> newItemQuantity,
           list_id |-> currentListId,
           bought |-> FALSE])

addItem ==
  /\ Click
  /\ ItemsView
  /\ IF addItemRejects
     THEN /\ toasts' = <<"Campos obrigatorios">>
          /\ UNCHANGED tasks
     ELSE /\ InFlight < MaxCalls
          /\ tasks' = Append(tasks, Task("addItem", addItemInsert, NULL, NULL))
          /\ toasts' = <<>>
  /\ UNCHANGED <<dbVars, local, listsQ, itemsQ>>

\* Mutant of toggleUpdate: the passed value is sent as it is.
toggleUpdateSame(id, bought) ==
  Request("shopping_items", "update", "id", id, [bought |-> bought])

toggleUpdate(id, bought) ==
  Request("shopping_items", "update", "id", id, [bought |-> ~bought])

\* The checkbox of a rendered item: toggleItem(item.id, item.bought).
toggleItem ==
  /\ Click
  /\ ItemsView
  /\ InFlight < MaxCalls
  /\ \E i \in 1..Len(items) :
       /\ tasks' = Append(tasks,
            Task("toggleItem", toggleUpdate(items[i].id, items[i].bought),
                 items[i].id, NULL))
       /\ toasts' = <<>>
  /\ UNCHANGED <<dbVars, local, listsQ, itemsQ>>

deleteItem ==
  /\ Click
  /\ ItemsView
  /\ InFlight < MaxCalls
  /\ \E i \in 1..Len(items) :
       LET req == Request("shopping_items", "delete", "id", items[i].id,
                          NoRow)
       IN /\ tasks' = Append(tasks,
               Task("deleteItem", req, items[i].id, NULL))
          /\ toasts' = <<>>
  /\ UNCHANGED <<dbVars, local, listsQ, itemsQ>>

\* ------------------------------------------------------------ remote store
\* The two tables of the hosted database and its change replication:
\* a request is executed at some moment after it was sent; each row it
\* inserts, updates or deletes is published, in order, to the channels that
\* are open at that moment.  shopping_items.list_id references
\* shopping_lists; rows of a deleted list go with it.
Matches(row, req) ==
  IF req.col = "id" THEN row.id = req.key ELSE row.list_id = req.key

Patched(row, req) ==
  IF req.tbl = "shopping_lists" THEN [row EXCEPT !.name = req.row.name]
  ELSE [row EXCEPT !.bought = req.row.bought]

Inserted(row) == [eventType |-> "INSERT", new |-> row, old |-> row]
Updated(old, new) == [eventType |-> "UPDATE", new |-> new, old |-> old]
Deleted(old) == [eventType |-> "DELETE", new |-> old, old |-> old]

Hit(table, req) == SelectSeq(table, LAMBDA r : Matches(r, req))
Miss(table, req) == SelectSeq(table, LAMBDA r : ~Matches(r, req))

UpdateAll(table, req) ==
  [k \in 1..Len(table) |->
     IF Matches(table[k], req) THEN Patched(table[k], req) ELSE table[k]]

UpdateEvents(table, req) ==
  [k \in 1..Len(Hit(table, req)) |->
     Updated(Hit(table, req)[k], Patched(Hit(table, req)[k], req))]

DeleteEvents(table, req) ==
  [k \in 1..Len(Hit(table, req)) |-> Deleted(Hit(table, req)[k])]

ItemsChannelOpen == currentListId # NULL

Publish(q, events, open) == IF open THEN q \o events ELSE q

Answer(ts, i, error, hasData, data) ==
  [ts EXCEPT ![i].pc = "answered", ![i].error = error,
             ![i].hasData = hasData, ![i].data = data]

StoreError ==
  /\ UNCHANGED clicks
  /\ \E i \in 1..Len(tasks) :
    /\ tasks[i].pc = "sent"
    /\ tasks' = Answer(tasks, i, TRUE, FALSE, <<>>)
    /\ toasts' = <<>>
    /\ UNCHANGED <<dbVars, local, listsQ, itemsQ>>

StoreSelect ==
  /\ UNCHANGED clicks
  /\ \E i \in 1..Len(tasks) :
    LET req == tasks[i].req
        rows == IF req.tbl = "shopping_lists" THEN Reverse(dbLists)
                ELSE Reverse(Hit(dbItems, req))
    IN /\ tasks[i].pc = "sent"
       /\ req.verb = "select"
       /\ tasks' = Answer(tasks, i, FALSE, TRUE, rows)
       /\ toasts' = <<>>
       /\ UNCHANGED <<dbVars, local, listsQ, itemsQ>>

StoreInsert ==
  /\ UNCHANGED clicks
  /\ \E i \in 1..Len(tasks) :
    LET req == tasks[i].req IN
    /\ tasks[i].pc = "sent"
    /\ req.verb = "insert"
    /\ IF req.tbl = "shopping_lists"
       THEN LET row == [id |-> nextListId, name |-> req.row.name]
            IN /\ dbLists' = Append(dbLists, row)
               /\ nextListId' = nextListId + 1
               /\ listsQ' = Append(listsQ, Inserted(row))
               /\ tasks' = Answer(tasks, i, FALSE, TRUE, <<row>>)
               /\ UNCHANGED <<dbItems, nextItemId, itemsQ>>
       ELSE LET row == [id |-> nextItemId, name |-> req.row.name,
                        category |-> req.row.category,
                        quantity |-> req.row.quantity,
                        bought |-> req.row.bought,
                        list_id |-> req.row.list_id]
            IN /\ req.row.list_id \in Ids(dbLists)
               /\ dbItems' = Append(dbItems, row)
               /\ nextItemId' = nextItemId + 1
               /\ itemsQ' = Publish(itemsQ, <<Inserted(row)>>,
                                    ItemsChannelOpen)
               /\ tasks' = Answer(tasks, i, FALSE, FALSE, <<>>)
               /\ UNCHANGED <<dbLists, nextListId, listsQ>>
    /\ toasts' = <<>>
    /\ UNCHANGED local

StoreUpdate ==
  /\ UNCHANGED clicks
  /\ \E i \in 1..Len(tasks) :
    LET req == tasks[i].req IN
    /\ tasks[i].pc = "sent"
    /\ req.verb = "update"
    /\ IF req.tbl = "shopping_lists"
       THEN /\ dbLists' = UpdateAll(dbLists, req)
            /\ listsQ' = listsQ \o UpdateEvents(dbLists, req)
            /\ UNCHANGED <<dbItems, itemsQ>>
       ELSE /\ dbItems' = UpdateAll(dbItems, req)
            /\ itemsQ' = Publish(itemsQ, UpdateEvents(dbItems, req),
                                 ItemsChannelOpen)
            /\ UNCHANGED <<dbLists, listsQ>>
    /\ tasks' = Answer(tasks, i, FALSE, FALSE, <<>>)
    /\ toasts' = <<>>
    /\ UNCHANGED <<nextListId, nextItemId, local>>

StoreDelete ==
  /\ UNCHANGED clicks
  /\ \E i \in 1..Len(tasks) :
    LET req == tasks[i].req
        owned == Request("shopping_items", "delete", "list_id", req.key,
                         NoRow)
    IN
    /\ tasks[i].pc = "sent"
    /\ req.verb = "delete"
    /\ IF req.tbl = "shopping_lists"
       THEN /\ dbLists' = Miss(dbLists, req)
            /\ listsQ' = listsQ \o DeleteEvents(dbLists, req)
            /\ dbItems' = IF Hit(dbLists, req) = <<>> THEN dbItems
                          ELSE Miss(dbItems, owned)
            /\ itemsQ' = IF Hit(dbLists, req) = <<>> THEN itemsQ
                         ELSE Publish(itemsQ, DeleteEvents(dbItems, owned),
                                      ItemsChannelOpen)
       ELSE /\ dbItems' = Miss(dbItems, req)
            /\ itemsQ' = Publish(itemsQ, DeleteEvents(dbItems, req),
                                 ItemsChannelOpen)
            /\ UNCHANGED <<dbLists, listsQ>>
    /\ tasks' = Answer(tasks, i, FALSE, FALSE, <<>>)
    /\ toasts' = <<>>
    /\ UNCHANGED <<nextListId, nextItemId, local>>

\* ---------------------------------------------- handlers after their await
Answered(i, h) == tasks[i].h = h /\ tasks[i].pc = "answered"

\* Mutant of orEmpty: the snapshot is dropped.
orNothing(t) == <<>>

\* data || []
orEmpty(t) == IF t.hasData THEN t.data ELSE <<>>

\* Mutant of fetchListsDone: loading is cleared only after a success.
fetchListsDoneTry ==
  /\ UNCHANGED clicks
  /\ \E i \in 1..Len(tasks) :
    /\ Answered(i, "fetchLists")
    /\ IF tasks[i].error
       THEN /\ toasts' = <<"Erro">>
            /\ UNCHANGED <<lists, loading>>
       ELSE /\ lists' = orEmpty(tasks[i])
            /\ loading' = FALSE
            /\ toasts' = <<>>
    /\ tasks' = RemoveAt(tasks, i)
    /\ UNCHANGED <<dbVars, currentListId, items, listForm, itemForm, listsQ,
                   itemsQ>>

fetchListsDone ==
  /\ UNCHANGED clicks
  /\ \E i \in 1..Len(tasks) :
    /\ Answered(i, "fetchLists")
    /\ IF tasks[i].error
       THEN /\ toasts' = <<"Erro">>
            /\ UNCHANGED lists
       ELSE /\ lists' = orEmpty(tasks[i])
            /\ toasts' = <<>>
    /\ loading' = FALSE
    /\ tasks' = RemoveAt(tasks, i)
    /\ UNCHANGED <<dbVars, currentListId, items, listForm, itemForm, listsQ,
                   itemsQ>>

\* Mutant of fetchItemsDone: the snapshot is put in front of the rows held.
fetchItemsDoneMerges ==
  /\ UNCHANGED clicks
  /\ \E i \in 1..Len(tasks) :
    /\ Answered(i, "fetchItems")
    /\ IF tasks[i].error
       THEN /\ toasts' = <<"Erro">>
            /\ UNCHANGED items
       ELSE /\ items' = orEmpty(tasks[i]) \o items
            /\ toasts' = <<>>
    /\ tasks' = RemoveAt(tasks, i)
    /\ UNCHANGED <<dbVars, lists, currentListId, loading, listForm, itemForm,
                   listsQ, itemsQ>>

fetchItemsDone ==
  /\ UNCHANGED clicks
  /\ \E i \in 1..Len(tasks) :
    /\ Answered(i, "fetchItems")
    /\ IF tasks[i].error
       THEN /\ toasts' = <<"Erro">>
            /\ UNCHANGED items
       ELSE /\ items' = orEmpty(tasks[i])
            /\ toasts' = <<>>
    /\ tasks' = RemoveAt(tasks, i)
    /\ UNCHANGED <<dbVars, lists, currentListId, loading, listForm, itemForm,
                   listsQ, itemsQ>>

\* Mutant of createListDone: the view is left to the lists feed.
createListDoneWaits ==
  /\ UNCHANGED clicks
  /\ \E i \in 1..Len(tasks) :
    /\ Answered(i, "createList")
    /\ IF tasks[i].error
       THEN /\ toasts' = <<"Erro">>
            /\ UNCHANGED newListName
       ELSE /\ newListName' = <<>>
            /\ toasts' = <<"Lista criada">>
    /\ tasks' = RemoveAt(tasks, i)
    /\ UNCHANGED <<dbVars, lists, currentListId, items, loading,
                   editingListId, editingListName, itemForm, listsQ, itemsQ>>

createListDone ==
  /\ UNCHANGED clicks
  /\ \E i \in 1..Len(tasks) :
    /\ Answered(i, "createList")
    /\ IF tasks[i].error
       THEN /\ toasts' = <<"Erro">>
            /\ tasks' = RemoveAt(tasks, i)
            /\ UNCHANGED <<newListName, currentListId, itemsQ>>
       ELSE LET id == tasks[i].data[1].id IN
            /\ newListName' = <<>>
            /\ currentListId' = id
            /\ tasks' = EffectTasks(RemoveAt(tasks, i), currentListId, id)
            /\ itemsQ' = EffectQueue(itemsQ, currentListId, id)
            /\ toasts' = <<"Lista criada">>
    /\ UNCHANGED <<dbVars, lists, items, loading, editingListId,
                   editingListName, itemForm, listsQ>>

updateListDone ==
  /\ UNCHANGED clicks
  /\ \E i \in 1..Len(tasks) :
    /\ Answered(i, "updateList")
    /\ IF tasks[i].error
       THEN /\ toasts' = <<"Erro">>
            /\ UNCHANGED <<editingListId, editingListName>>
       ELSE /\ editingListId' = NULL
            /\ editingListName' = <<>>
            /\ toasts' = <<"Lista atualizada">>
    /\ tasks' = RemoveAt(tasks, i)
    /\ UNCHANGED <<dbVars, lists, currentListId, items, loading, newListName,
                   itemForm, listsQ, itemsQ>>

\* deleteList between its two awaits: the result of the item delete is not
\* looked at, and the list delete is sent.
deleteListThen ==
  /\ UNCHANGED clicks
  /\ \E i \in 1..Len(tasks) :
    /\ Answered(i, "deleteList")
    /\ tasks[i].req.tbl = "shopping_items"
    /\ tasks' = [tasks EXCEPT ![i] =
         Task("deleteList", deleteListRow(tasks[i].id), tasks[i].id,
              tasks[i].cur)]
    /\ toasts' = <<>>
    /\ UNCHANGED <<dbVars, local, listsQ, itemsQ>>

deleteListDone ==
  /\ UNCHANGED clicks
  /\ \E i \in 1..Len(tasks) :
    /\ Answered(i, "deleteList")
    /\ tasks[i].req.tbl = "shopping_lists"
    /\ IF tasks[i].error
       THEN /\ toasts' = <<"Erro">>
            /\ UNCHANGED <<currentListId, items, itemsQ>>
       ELSE /\ IF tasks[i].cur = tasks[i].id
               THEN /\ currentListId' = NULL
                    /\ items' = <<>>
                    /\ itemsQ' = EffectQueue(itemsQ, currentListId, NULL)
               ELSE UNCHANGED <<currentListId, items, itemsQ>>
            /\ toasts' = <<"Lista removida">>
    /\ tasks' = RemoveAt(tasks, i)
    /\ UNCHANGED <<dbVars, lists, loading, listForm, itemForm, listsQ>>

addItemDone ==
  /\ UNCHANGED clicks
  /\ \E i \in 1..Len(tasks) :
    /\ Answered(i, "addItem")
    /\ IF tasks[i].error
       THEN /\ toasts' = <<"Erro">>
            /\ UNCHANGED itemForm
       ELSE /\ newItemName' = <<>>
            /\ newItemCategory' = ""
            /\ newItemQuantity' = 1
            /\ categoryOpen' = FALSE
            /\ categorySearch' = <<>>
            /\ toasts' = <<"Item adicionado">>
    /\ tasks' = RemoveAt(tasks, i)
    /\ UNCHANGED <<dbVars, lists, currentListId, items, loading, listForm,
                   listsQ, itemsQ>>

\* Mutant of toggleItemDone: an error is not reported.
toggleItemDoneSilent ==
  /\ UNCHANGED clicks
  /\ \E i \in 1..Len(tasks) :
    /\ Answered(i, "toggleItem")
    /\ toasts' = <<>>
    /\ tasks' = RemoveAt(tasks, i)
    /\ UNCHANGED <<dbVars, local, listsQ, itemsQ>>

toggleItemDone ==
  /\ UNCHANGED clicks
  /\ \E i \in 1..Len(tasks) :
    /\ Answered(i, "toggleItem")
    /\ toasts' = IF tasks[i].error THEN <<"Erro">> ELSE <<>>
    /\ tasks' = RemoveAt(tasks, i)
    /\ UNCHANGED <<dbVars, local, listsQ, itemsQ>>

\* Mutant of deleteItemDone: the row is removed locally on success.
deleteItemDoneOptimistic ==
  /\ UNCHANGED clicks
  /\ \E i \in 1..Len(tasks) :
    /\ Answered(i, "deleteItem")
    /\ toasts' = IF tasks[i].error THEN <<"Erro">> ELSE <<"Item removido">>
    /\ items' = IF tasks[i].error THEN items
                ELSE SelectSeq(items, LAMBDA item : item.id # tasks[i].id)
    /\ tasks' = RemoveAt(tasks, i)
    /\ UNCHANGED <<dbVars, lists, currentListId, loading, listForm, itemForm,
                   listsQ, itemsQ>>

deleteItemDone ==
  /\ UNCHANGED clicks
  /\ \E i \in 1..Len(tasks) :
    /\ Answered(i, "deleteItem")
    /\ toasts' = IF tasks[i].error THEN <<"Erro">> ELSE <<"Item removido">>
    /\ tasks' = RemoveAt(tasks, i)
    /\ UNCHANGED <<dbVars, local, listsQ, itemsQ>>

\* ------------------------------------------------------ change-feed handlers
listsReducer(prev, payload) ==
  IF payload.eventType = "INSERT" THEN <<payload.new>> \o prev
  ELSE IF payload.eventType = "UPDATE"
  THEN [k \in 1..Len(prev) |->
          IF prev[k].id = payload.new.id THEN payload.new ELSE prev[k]]
  ELSE IF payload.eventType = "DELETE"
  THEN SelectSeq(prev, LAMBDA list : list.id # payload.old.id)
  ELSE prev

\* Mutant of itemsReducer: an update of a row already bought is dropped.
itemsReducerFirstWins(prev, payload) ==
  IF payload.eventType = "INSERT" THEN <<payload.new>> \o prev
  ELSE IF payload.eventType = "UPDATE"
  THEN [k \in 1..Len(prev) |->
          IF prev[k].id = payload.new.id /\ ~prev[k].bought
          THEN payload.new ELSE prev[k]]
  ELSE IF payload.eventType = "DELETE"
  THEN SelectSeq(prev, LAMBDA item : item.id # payload.old.id)
  ELSE prev

\* Mutant of itemsReducer: an inserted row is put at the end.
itemsReducerAppend(prev, payload) ==
  IF payload.eventType = "INSERT" THEN prev \o <<payload.new>>
  ELSE IF payload.eventType = "UPDATE"
  THEN [k \in 1..Len(prev) |->
          IF prev[k].id = payload.new.id THEN payload.new ELSE prev[k]]
  ELSE IF payload.eventType = "DELETE"
  THEN SelectSeq(prev, LAMBDA item : item.id # payload.old.id)
  ELSE prev

\* Mutant of itemsReducer: an update of a row not held adds it (upsert).
itemsReducerUpsert(prev, payload) ==
  IF payload.eventType = "INSERT" THEN <<payload.new>> \o prev
  ELSE IF payload.eventType = "UPDATE"
  THEN IF \E k \in 1..Len(prev) : prev[k].id = payload.new.id
       THEN [k \in 1..Len(prev) |->
               IF prev[k].id = payload.new.id THEN payload.new ELSE prev[k]]
       ELSE <<payload.new>> \o prev
  ELSE IF payload.eventType = "DELETE"
  THEN SelectSeq(prev, LAMBDA item : item.id # payload.old.id)
  ELSE prev

\* Mutant of itemsReducer: an updated row is moved to the front.
itemsReducerUpdateFirst(prev, payload) ==
  IF payload.eventType = "INSERT" THEN <<payload.new>> \o prev
  ELSE IF payload.eventType = "UPDATE"
  THEN IF \E k \in 1..Len(prev) : prev[k].id = payload.new.id
       THEN <<payload.new>>
              \o SelectSeq(prev, LAMBDA item : item.id # payload.new.id)
       ELSE prev
  ELSE IF payload.eventType = "DELETE"
  THEN SelectSeq(prev, LAMBDA item : item.id # payload.old.id)
  ELSE prev

itemsReducer(prev, payload) ==
  IF payload.eventType = "INSERT" THEN <<payload.new>> \o prev
  ELSE IF payload.eventType = "UPDATE"
  THEN [k \in 1..Len(prev) |->
          IF prev[k].id = payload.new.id THEN payload.new ELSE prev[k]]
  ELSE IF payload.eventType = "DELETE"
  THEN SelectSeq(prev, LAMBDA item : item.id # payload.old.id)
  ELSE prev

listsFeed ==
  /\ UNCHANGED clicks
  /\ listsQ # <<>>
  /\ lists' = listsReducer(lists, Head(listsQ))
  /\ listsQ' = Tail(listsQ)
  /\ toasts' = <<>>
  /\ UNCHANGED <<dbVars, currentListId, items, loading, listForm, itemForm,
                 itemsQ, tasks>>

itemsFeed ==
  /\ UNCHANGED clicks
  /\ itemsQ # <<>>
  /\ items' = itemsReducer(items, Head(itemsQ))
  /\ itemsQ' = Tail(itemsQ)
  /\ toasts' = <<>>
  /\ UNCHANGED <<dbVars, lists, currentListId, loading, listForm, itemForm,
                 listsQ, tasks>>

\* ------------------------------------------------------------------ grouping
\* items.reduce(...): a record keyed by category label, its keys in the
\* order of their first insertion; here a sequence of (category, items).
\* Mutant of push: the item is pushed to every group.
pushEvery(acc, item) ==
  [g \in 1..Len(acc) |-> [acc[g] EXCEPT !.items = Append(@, item)]]

\* Mutant of push: the item is put in front of its group.
pushFront(acc, item) ==
  [g \in 1..Len(acc) |->
     IF acc[g].category = item.category
     THEN [acc[g] EXCEPT !.items = <<item>> \o @] ELSE acc[g]]

push(acc, item) ==
  [g \in 1..Len(acc) |->
     IF acc[g].category = item.category
     THEN [acc[g] EXCEPT !.items = Append(@, item)] ELSE acc[g]]

RECURSIVE reduceItems(_, _)
reduceItems(acc, rest) ==
  IF rest = <<>> THEN acc
  ELSE LET item == Head(rest)
           known == \E g \in 1..Len(acc) : acc[g].category = item.category
           opened == IF known THEN acc
                     ELSE Append(acc, [category |-> item.category,
                                       items |-> <<>>])
       IN reduceItems(push(opened, item), Tail(rest))

groupedItems == reduceItems(<<>>, items)

\* ----------------------------------------------------------- specification
Next ==
  \/ onChangeNewListName
  \/ onClickEdit
  \/ onChangeEditingListName
  \/ onClickCancelEdit
  \/ onClickOpenList
  \/ onClickBack
  \/ onChangeNewItemName
  \/ onChangeQuantity
  \/ onOpenChange
  \/ onValueChangeSearch
  \/ onSelectCategory
  \/ createList
  \/ updateList
  \/ deleteList
  \/ addItem
  \/ toggleItem
  \/ deleteItem
  \/ StoreError
  \/ StoreSelect
  \/ StoreInsert
  \/ StoreUpdate
  \/ StoreDelete
  \/ fetchListsDone
  \/ fetchItemsDone
  \/ createListDone
  \/ updateListDone
  \/ deleteListThen
  \/ deleteListDone
  \/ addItemDone
  \/ toggleItemDone
  \/ deleteItemDone
  \/ listsFeed
  \/ itemsFeed

Spec == Init /\ [][Next]_vars

\* The continuation of an answered fetchLists is a task of the event loop:
\* it is run.
FairSpec == Spec /\ WF_vars(fetchListsDone)

\* The store is shared: a user of another device adds an item to one of the
\* lists.  The row is published to this component's items channel like any
\* other, the channel subscribing to the whole table.  The event counts in
\* the user events of the run.
otherAddItem ==
  /\ Click
  /\ \E l \in Ids(dbLists) :
       LET row == [id |-> nextItemId, name |-> <<"c">>,
                   category |-> CATEGORIES[1], quantity |-> 1,
                   bought |-> FALSE, list_id |-> l]
       IN /\ dbItems' = Append(dbItems, row)
          /\ nextItemId' = nextItemId + 1
          /\ itemsQ' = Publish(itemsQ, <<Inserted(row)>>, ItemsChannelOpen)
  /\ toasts' = <<>>
  /\ UNCHANGED <<dbLists, nextListId, local, listsQ, tasks>>

NextShared ==
  \/ onChangeNewListName
  \/ onClickEdit
  \/ onChangeEditingListName
  \/ onClickCancelEdit
  \/ onClickOpenList
  \/ onClickBack
  \/ onChangeNewItemName
  \/ onChangeQuantity
  \/ onOpenChange
  \/ onValueChangeSearch
  \/ onSelectCategory
  \/ createList
  \/ updateList
  \/ deleteList
  \/ addItem
  \/ toggleItem
  \/ deleteItem
  \/ StoreError
  \/ StoreSelect
  \/ StoreInsert
  \/ StoreUpdate
  \/ StoreDelete
  \/ fetchListsDone
  \/ fetchItemsDone
  \/ createListDone
  \/ updateListDone
  \/ deleteListThen
  \/ deleteListDone
  \/ addItemDone
  \/ toggleItemDone
  \/ deleteItemDone
  \/ listsFeed
  \/ itemsFeed
  \/ otherAddItem

SpecShared == Init /\ [][NextShared]_vars

\* The component with a store that answers every request without error.
NextReliable ==
  \/ onChangeNewListName
  \/ onClickEdit
  \/ onChangeEditingListName
  \/ onClickCancelEdit
  \/ onClickOpenList
  \/ onClickBack
  \/ onChangeNewItemName
  \/ onChangeQuantity
  \/ onOpenChange
  \/ onValueChangeSearch
  \/ onSelectCategory
  \/ createList
  \/ updateList
  \/ deleteList
  \/ addItem
  \/ toggleItem
  \/ deleteItem
  \/ StoreSelect
  \/ StoreInsert
  \/ StoreUpdate
  \/ StoreDelete
  \/ fetchListsDone
  \/ fetchItemsDone
  \/ createListDone
  \/ updateListDone
  \/ deleteListThen
  \/ deleteListDone
  \/ addItemDone
  \/ toggleItemDone
  \/ deleteItemDone
  \/ listsFeed
  \/ itemsFeed

SpecReliable == Init /\ [][NextReliable]_vars

\* ------------------------------------- the items view over any items sequence
\* The items view of list 1 holding any sequence of up to MaxLen rows, with
\* at most one feed event pending; each event handled is a new render, which
\* groups the new sequence.
SampleRows ==
  {[id |-> i, name |-> <<"b">>, category |-> CATEGORIES[c], quantity |-> 1,
    bought |-> FALSE, list_id |-> 1] : i \in 1..MaxLen, c \in 1..Len(CATEGORIES)}

SampleItems == UNION {[1..n -> SampleRows] : n \in 0..MaxLen}

SampleEvents ==
  {Inserted(r) : r \in SampleRows} \cup {Deleted(r) : r \in SampleRows}
    \cup {Updated(r, r) : r \in SampleRows}

InitGrouping ==
  /\ dbLists = <<[id |-> 1, name |-> <<"b">>]>>
  /\ dbItems = <<>>
  /\ nextListId = 2
  /\ nextItemId = MaxLen + 1
  /\ lists = <<[id |-> 1, name |-> <<"b">>]>>
  /\ currentListId = 1
  /\ newListName = <<>>
  /\ editingListId = NULL
  /\ editingListName = <<>>
  /\ items \in SampleItems
  /\ newItemName = <<>>
  /\ newItemCategory = ""
  /\ newItemQuantity = 1
  /\ categoryOpen = FALSE
  /\ categorySearch = <<>>
  /\ loading = FALSE
  /\ listsQ = <<>>
  /\ itemsQ \in {<<>>} \cup {<<e>> : e \in SampleEvents}
  /\ tasks = <<>>
  /\ clicks = 0
  /\ toasts = <<>>

NextGrouping == itemsFeed

SpecGrouping == InitGrouping /\ [][NextGrouping]_vars

\* ------------------------------------- the two feeds over any local sequence
\* Either the items view of list 1 as above, or the lists view holding any
\* sequence of up to MaxLen list rows with at most one lists event pending;
\* the only steps are the two feed handlers.
SampleListRows ==
  {[id |-> i, name |-> <<n>>] : i \in 1..MaxLen, n \in {"a", "b"}}

SampleLists == UNION {[1..n -> SampleListRows] : n \in 0..MaxLen}

SampleListEvents ==
  {Inserted(r) : r \in SampleListRows} \cup {Deleted(r) : r \in SampleListRows}
    \cup {Updated(r, r) : r \in SampleListRows}

InitListsFeed ==
  /\ dbLists = <<[id |-> 1, name |-> <<"b">>]>>
  /\ dbItems = <<>>
  /\ nextListId = MaxLen + 1
  /\ nextItemId = 1
  /\ lists \in SampleLists
  /\ currentListId = NULL
  /\ newListName = <<>>
  /\ editingListId = NULL
  /\ editingListName = <<>>
  /\ items = <<>>
  /\ newItemName = <<>>
  /\ newItemCategory = ""
  /\ newItemQuantity = 1
  /\ categoryOpen = FALSE
  /\ categorySearch = <<>>
  /\ loading = FALSE
  /\ listsQ \in {<<>>} \cup {<<e>> : e \in SampleListEvents}
  /\ itemsQ = <<>>
  /\ tasks = <<>>
  /\ clicks = 0
  /\ toasts = <<>>

InitFeeds == InitGrouping \/ InitListsFeed

NextFeeds ==
  \/ listsFeed
  \/ itemsFeed

SpecFeeds == InitFeeds /\ [][NextFeeds]_vars

\* ------------------------------------------- the items view, store shared
\* The component from the moment list 1 was opened (its fetch is in flight,
\* its channel open) on, with the steps of the items view that touch rows,
\* leaving and opening the list again, and another client adding items.
InitItemsView ==
  /\ dbLists = <<[id |-> 1, name |-> <<"b">>]>>
  /\ dbItems = <<[id |-> 1, name |-> <<"b">>, category |-> "Padaria",
                  quantity |-> 1, bought |-> FALSE, list_id |-> 1]>>
  /\ nextListId = 2
  /\ nextItemId = 2
  /\ lists = <<[id |-> 1, name |-> <<"b">>]>>
  /\ currentListId = 1
  /\ newListName = <<>>
  /\ editingListId = NULL
  /\ editingListName = <<>>
  /\ items = <<>>
  /\ newItemName = <<>>
  /\ newItemCategory = ""
  /\ newItemQuantity = 1
  /\ categoryOpen = FALSE
  /\ categorySearch = <<>>
  /\ loading = FALSE
  /\ listsQ = <<>>
  /\ itemsQ = <<>>
  /\ tasks = <<fetchItemsCall(1)>>
  /\ clicks = 0
  /\ toasts = <<>>

NextItemsView ==
  \/ onClickOpenList
  \/ onClickBack
  \/ toggleItem
  \/ deleteItem
  \/ otherAddItem
  \/ StoreError
  \/ StoreSelect
  \/ StoreUpdate
  \/ StoreDelete
  \/ fetchItemsDone
  \/ toggleItemDone
  \/ deleteItemDone
  \/ itemsFeed

SpecItemsView == InitItemsView /\ [][NextItemsView]_vars

\* ---------------------------------------------- the single-list component
\* components/ShoppingList.tsx: one table of items without list_id, no lists
\* and no active list (lists and currentListId stay as they are), the items
\* channel open from mount on.  Modelled: mount, the add-item form, addItem
\* and the feed; StoreError, addItemDone and itemsFeed are the steps of the
\* multi-list component, whose code is the same there.
fetchItemsCallSingle ==
  Task("fetchItems",
       Request("shopping_items", "select", "", NULL, NoRow), NULL, NULL)

InitSingle ==
  /\ dbLists = <<>>
  /\ dbItems = <<[id |-> 1, name |-> <<"b">>, category |-> "Padaria",
                  quantity |-> 1, bought |-> FALSE]>>
  /\ nextListId = 1
  /\ nextItemId = 2
  /\ lists = <<>>
  /\ currentListId = NULL
  /\ newListName = <<>>
  /\ editingListId = NULL
  /\ editingListName = <<>>
  /\ items = <<>>
  /\ newItemName = <<>>
  /\ newItemCategory = ""
  /\ newItemQuantity = 1
  /\ categoryOpen = FALSE
  /\ categorySearch = <<>>
  /\ loading = TRUE
  /\ listsQ = <<>>
  /\ itemsQ = <<>>
  /\ tasks = <<fetchItemsCallSingle>>
  /\ clicks = 0
  /\ toasts = <<>>

StoreSelectSingle ==
  /\ UNCHANGED clicks
  /\ \E i \in 1..Len(tasks) :
       /\ tasks[i].pc = "sent"
       /\ tasks[i].req.verb = "select"
       /\ tasks' = Answer(tasks, i, FALSE, TRUE, Reverse(dbItems))
       /\ toasts' = <<>>
       /\ UNCHANGED <<dbVars, local, listsQ, itemsQ>>

StoreInsertSingle ==
  /\ UNCHANGED clicks
  /\ \E i \in 1..Len(tasks) :
    LET req == tasks[i].req
        row == [id |-> nextItemId, name |-> req.row.name,
                category |-> req.row.category,
                quantity |-> req.row.quantity, bought |-> req.row.bought]
    IN /\ tasks[i].pc = "sent"
       /\ req.verb = "insert"
       /\ dbItems' = Append(dbItems, row)
       /\ nextItemId' = nextItemId + 1
       /\ itemsQ' = Append(itemsQ, Inserted(row))
       /\ tasks' = Answer(tasks, i, FALSE, FALSE, <<>>)
       /\ toasts' = <<>>
       /\ UNCHANGED <<dbLists, nextListId, local, listsQ>>

\* fetchItems after its await; loading is cleared in its finally block.
fetchItemsDoneSingle ==
  /\ UNCHANGED clicks
  /\ \E i \in 1..Len(tasks) :
    /\ Answered(i, "fetchItems")
    /\ IF tasks[i].error
       THEN /\ toasts' = <<"Erro">>
            /\ UNCHANGED items
       ELSE /\ items' = orEmpty(tasks[i])
            /\ toasts' = <<>>
    /\ loading' = FALSE
    /\ tasks' = RemoveAt(tasks, i)
    /\ UNCHANGED <<dbVars, lists, currentListId, listForm, itemForm, listsQ,
                   itemsQ>>

onChangeNewItemNameSingle ==
  /\ Click
  /\ ~loading
  /\ \E v \in TextInputs \ {newItemName} : newItemName' = v
  /\ toasts' = <<>>
  /\ UNCHANGED <<dbVars, lists, currentListId, items, loading, listForm,
                 newItemCategory, newItemQuantity, categoryOpen,
                 categorySearch, listsQ, itemsQ, tasks>>

\* parseInt(e.target.value) || 1
quantityOfSingle(value) ==
  IF parseInt(value).nan \/ parseInt(value).n = 0 THEN 1
  ELSE parseInt(value).n

onChangeQuantitySingle ==
  /\ Click
  /\ ~loading
  /\ \E value \in QuantityInputs :
       newItemQuantity' = quantityOfSingle(value)
  /\ toasts' = <<>>
  /\ UNCHANGED <<dbVars, lists, currentListId, items, loading, listForm,
                 newItemName, newItemCategory, categoryOpen, categorySearch,
                 listsQ, itemsQ, tasks>>

onOpenChangeSingle ==
  /\ UNCHANGED clicks
  /\ ~loading
  /\ categoryOpen' = ~categoryOpen
  /\ toasts' = <<>>
  /\ UNCHANGED <<dbVars, lists, currentListId, items, loading, listForm,
                 newItemName, newItemCategory, newItemQuantity,
                 categorySearch, listsQ, itemsQ, tasks>>

onValueChangeSearchSingle ==
  /\ Click
  /\ ~loading
  /\ categoryOpen
  /\ \E v \in SearchInputs \ {categorySearch} : categorySearch' = v
  /\ toasts' = <<>>
  /\ UNCHANGED <<dbVars, lists, currentListId, items, loading, listForm,
                 newItemName, newItemCategory, newItemQuantity, categoryOpen,
                 listsQ, itemsQ, tasks>>

onSelectCategorySingle ==
  /\ Click
  /\ ~loading
  /\ categoryOpen
  /\ \E k \in 1..Len(CATEGORIES) :
       /\ Offered(CATEGORIES[k])
       /\ newItemCategory' =
            IF CATEGORIES[k] = newItemCategory THEN "" ELSE CATEGORIES[k]
  /\ categoryOpen' = FALSE
  /\ categorySearch' = <<>>
  /\ toasts' = <<>>
  /\ UNCHANGED <<dbVars, lists, currentListId, items, loading, listForm,
                 newItemName, newItemQuantity, listsQ, itemsQ, tasks>>

addItemSingle ==
  /\ Click
  /\ ~loading
  /\ IF trim(newItemName) = <<>> \/ newItemCategory = ""
     THEN /\ toasts' = <<"Campos obrigatorios">>
          /\ UNCHANGED tasks
     ELSE LET req == Request("shopping_items", "insert", "", NULL,
                             [name |-> trim(newItemName),
                              category |-> newItemCategory,
                              quantity |-> newItemQuantity,
                              bought |-> FALSE])
          IN /\ InFlight < MaxCalls
             /\ tasks' = Append(tasks, Task("addItem", req, NULL, NULL))
             /\ toasts' = <<>>
  /\ UNCHANGED <<dbVars, local, listsQ, itemsQ>>

NextSingle ==
  \/ onChangeNewItemNameSingle
  \/ onChangeQuantitySingle
  \/ onOpenChangeSingle
  \/ onValueChangeSearchSingle
  \/ onSelectCategorySingle
  \/ addItemSingle
  \/ StoreError
  \/ StoreSelectSingle
  \/ StoreInsertSingle
  \/ fetchItemsDoneSingle
  \/ addItemDone
  \/ itemsFeed

SpecSingle == InitSingle /\ [][NextSingle]_vars

\* ==================================================================== claims
\* Vocabulary of the step properties below.
\* The step sends exactly one request, Sent, and leaves the other calls alone.
SendsOne ==
  /\ Len(tasks') = Len(tasks) + 1
  /\ SubSeq(tasks', 1, Len(tasks)) = tasks
  /\ tasks'[Len(tasks')].pc = "sent"

Sent == tasks'[Len(tasks')].req

\* The step sends nothing: every call in flight afterwards was in flight.
SendsNone ==
  \A j \in 1..Len(tasks') : \E i \in 1..Len(tasks) : tasks'[j] = tasks[i]

Blank(text) == \A k \in 1..Len(text) : text[k] = " "

\* core is text without the blanks at its two ends.
Trimmed(text, core) ==
  /\ \E a, b \in 0..Len(text) :
       /\ a + Len(core) + b = Len(text)
       /\ \A k \in 1..Len(text) :
            IF k <= a \/ k > a + Len(core) THEN text[k] = " "
            ELSE text[k] = core[k - a]
  /\ core # <<>> => core[1] # " " /\ core[Len(core)] # " "

HandlesItem(eventType) == itemsFeed /\ Head(itemsQ).eventType = eventType

HandlesList(eventType) == listsFeed /\ Head(listsQ).eventType = eventType

\* --------------------------------------------------------------------- C1
BoughtChanges(id) ==
  \E k \in 1..Len(items), m \in 1..Len(items') :
    /\ items[k].id = id
    /\ items'[m].id = id
    /\ items'[m].bought # items[k].bought

C2_AddItemRejects ==
  [][ (addItem /\ (Blank(newItemName) \/ newItemCategory = ""
                   \/ currentListId = NULL)) =>
        /\ tasks' = tasks
        /\ toasts' = <<"Campos obrigatorios">>
        /\ UNCHANGED <<dbVars, local, listsQ, itemsQ>>
    ]_vars

\* addItem has just rejected a blank, non-empty name with a category chosen.
C2_Witness ==
  /\ toasts = <<"Campos obrigatorios">>
  /\ newItemName # <<>>
  /\ Blank(newItemName)
  /\ newItemCategory # ""
  /\ currentListId # NULL

\* --------------------------------------------------------------------- C3
InGroup(row, groups) ==
  \E g \in 1..Len(groups) :
    /\ groups[g].category = row.category
    /\ \E k \in 1..Len(groups[g].items) : groups[g].items[k] = row

RECURSIVE Without(_, _)
Without(rows, id) ==
  IF rows = <<>> THEN <<>>
  ELSE IF Head(rows).id = id THEN Without(Tail(rows), id)
  ELSE <<Head(rows)>> \o Without(Tail(rows), id)

Reduced(prev, event, next) ==
  CASE event.eventType = "INSERT" ->
         /\ Len(next) = Len(prev) + 1
         /\ next[1] = event.new
         /\ \A k \in 1..Len(prev) : next[k + 1] = prev[k]
    [] event.eventType = "UPDATE" ->
         /\ Len(next) = Len(prev)
         /\ \A k \in 1..Len(prev) :
              next[k] = IF prev[k].id = event.new.id THEN event.new
                        ELSE prev[k]
    [] event.eventType = "DELETE" -> next = Without(prev, event.old.id)

\* C4: both feed handlers are the same reducer: INSERT puts the new row in
\* front of the previous sequence, UPDATE replaces, at their positions, the
\* rows with the event's id, DELETE removes the rows with the event's id and
\* keeps the others in order.
C4_FeedReducer ==
  [][ /\ listsFeed => Reduced(lists, Head(listsQ), lists')
      /\ itemsFeed => Reduced(items, Head(itemsQ), items')
    ]_vars

\* The INSERT event of a created list was handled on a non-empty lists
\* sequence: the new row is first, the fetched row after it.
C4_Witness ==
  /\ Len(lists) = 2
  /\ lists[1].id = 2
  /\ lists[2].id = 1
  /\ listsQ = <<>>

\* --------------------------------------------------------------------- C5
CascadeOf(t, id) ==
  /\ t.h = "deleteList" /\ t.id = id
  /\ t.req.tbl = "shopping_items" /\ t.req.verb = "delete"
  /\ t.req.col = "list_id" /\ t.req.key = id

RowDeleteOf(t, id) ==
  /\ t.h = "deleteList" /\ t.id = id
  /\ t.req.tbl = "shopping_lists" /\ t.req.verb = "delete"
  /\ t.req.col = "id" /\ t.req.key = id

RowDeletes(ts, id) ==
  Cardinality({i \in 1..Len(ts) : RowDeleteOf(ts[i], id)})

CascadesAnswered(ts, id) ==
  Cardinality({i \in 1..Len(ts) :
     CascadeOf(ts[i], id) /\ ts[i].pc = "answered"})

\* C5: the click of deleteList(id) sends only the delete of the items with
\* list_id = id, and a delete of the list row id is sent only in a step that
\* consumes the answer to that item delete.
C5_ItemsBeforeList ==
  [][ /\ deleteList =>
           /\ SendsOne
           /\ \E i \in 1..Len(lists) :
                CascadeOf(tasks'[Len(tasks')], lists[i].id)
      /\ \A id \in 1..nextListId :
           RowDeletes(tasks', id) > RowDeletes(tasks, id) =>
             /\ RowDeletes(tasks', id) = RowDeletes(tasks, id) + 1
             /\ CascadesAnswered(tasks', id) = CascadesAnswered(tasks, id) - 1
    ]_vars

\* The items of list 1 are gone from the store, the list row is still there,
\* and the delete of the row is on its way.
C5_Witness ==
  \E i \in 1..Len(tasks) :
    /\ RowDeleteOf(tasks[i], 1)
    /\ tasks[i].pc = "sent"
    /\ \A r \in 1..Len(dbItems) : dbItems[r].list_id # 1
    /\ 1 \in Ids(dbLists)

\* --------------------------------------------------------------------- C6
\* The step is the continuation that consumes the answer to call i.
Ends(i) == tasks[i].pc = "answered" /\ tasks' = RemoveAt(tasks, i)

\* The step is deleteList going on after the answer to its item delete.
GoesOn(i) ==
  /\ tasks[i].pc = "answered"
  /\ Len(tasks') = Len(tasks)
  /\ tasks'[i] # tasks[i]
  /\ \A j \in 1..Len(tasks) : j # i => tasks'[j] = tasks[j]

\* C6: when deleteList(id) completes successfully while id is the active
\* list, the active list becomes null and items becomes empty; after a
\* successful deleteList(id) the active list is not id.
C6_DeletedListIsNotActive ==
  [][ \A i \in 1..Len(tasks) :
        (deleteListDone /\ Ends(i) /\ RowDeleteOf(tasks[i], tasks[i].id)
           /\ ~tasks[i].error) =>
          /\ currentListId = tasks[i].id =>
               currentListId' = NULL /\ items' = <<>>
          /\ currentListId' # tasks[i].id
    ]_vars

\* --------------------------------------------------------------------- C7
\* C7: when the item delete or the list-row delete of deleteList(id) is
\* answered with an error, the continuation shows one error notification,
\* sends nothing more (the list row is not deleted), and leaves the store
\* and the local state as they were.
C7_DeleteListFailureHasNoEffect ==
  [][ \A i \in 1..Len(tasks) :
        ((deleteListThen \/ deleteListDone) /\ (Ends(i) \/ GoesOn(i))
           /\ tasks[i].h = "deleteList" /\ tasks[i].error) =>
          /\ toasts' = <<"Erro">>
          /\ SendsNone
          /\ UNCHANGED <<dbVars, local>>
    ]_vars

\* --------------------------------------------------------------------- C8
\* C8: when the remote call of addItem, toggleItem, deleteItem, createList
\* or updateList is answered with an error, the continuation shows exactly
\* one error notification, changes no local state and sends nothing.
C8_ErrorLeavesLocalState ==
  [][ \A i \in 1..Len(tasks) :
        (tasks[i].error
           /\ tasks[i].h \in {"addItem", "toggleItem", "deleteItem",
                              "createList", "updateList"}
           /\ Ends(i)
           /\ (addItemDone \/ toggleItemDone \/ deleteItemDone
                 \/ createListDone \/ updateListDone)) =>
          /\ toasts' = <<"Erro">>
          /\ SendsNone
          /\ UNCHANGED local
    ]_vars

\* In the items view, after the fetch brought the rows, a toggle or a delete
\* of an item failed and was reported; the rows are as fetched.
C8_Witness ==
  /\ toasts = <<"Erro">>
  /\ tasks = <<>>
  /\ clicks = 2
  /\ currentListId # NULL
  /\ items # <<>>
  /\ \A k \in 1..Len(items) : \E r \in 1..Len(dbItems) : dbItems[r] = items[k]

\* --------------------------------------------------------------------- C9
Snapshot(t) == IF t.hasData THEN t.data ELSE <<>>

\* C9: a fetch that succeeds replaces the whole sequence by the snapshot
\* returned (empty when none); a fetch that fails shows an error
\* notification and leaves lists and items as they were.  Apart from the
\* sequence it replaces, a fetch changes at most the loading flag.
C9_FetchReplacesOrKeeps ==
  [][ \A i \in 1..Len(tasks) :
        /\ (fetchListsDone /\ Ends(i) /\ tasks[i].h = "fetchLists") =>
             /\ IF tasks[i].error
                THEN toasts' = <<"Erro">> /\ lists' = lists
                ELSE lists' = Snapshot(tasks[i])
             /\ UNCHANGED <<items, currentListId, listForm, itemForm>>
        /\ (fetchItemsDone /\ Ends(i) /\ tasks[i].h = "fetchItems") =>
             /\ IF tasks[i].error
                THEN toasts' = <<"Erro">> /\ items' = items
                ELSE items' = Snapshot(tasks[i])
             /\ UNCHANGED <<lists, currentListId, loading, listForm, itemForm>>
    ]_vars

\* The fetch of the lists succeeded and the fetch of the items of the list
\* opened failed: the lists are the snapshot, the items are still empty
\* though the store has rows for the list, and the failure was reported.
C9_Witness ==
  /\ toasts = <<"Erro">>
  /\ tasks = <<>>
  /\ clicks = 1
  /\ ~loading
  /\ lists = Reverse(dbLists)
  /\ lists # <<>>
  /\ currentListId # NULL
  /\ items = <<>>
  /\ \E r \in 1..Len(dbItems) : dbItems[r].list_id = currentListId

\* -------------------------------------------------------------------- C10
\* C10: lists changes only in its feed handler or in the completion of
\* fetchLists; items changes only in its feed handler, in the completion of
\* fetchItems, or when deleteList clears it.  The steps of addItem,
\* deleteItem, updateList and the remote calls of deleteList leave both
\* sequences as they were, on success and on failure.
C10_OnlyFeedOrFetch ==
  [][ /\ lists' # lists => listsFeed \/ fetchListsDone
      /\ items' # items => itemsFeed \/ fetchItemsDone \/ deleteListDone
      /\ (lists' # lists \/ items' # items) =>
           ~(addItem \/ addItemDone \/ deleteItem \/ deleteItemDone
               \/ updateList \/ updateListDone \/ deleteList
               \/ deleteListThen)
      /\ (items' # items /\ deleteListDone) => items' = <<>>
    ]_vars

\* deleteItem succeeded and was reported, the row is gone from the store,
\* and items still holds it.
C10_Witness ==
  /\ toasts = <<"Item removido">>
  /\ 1 \in Ids(items)
  /\ 1 \notin Ids(dbItems)

\* -------------------------------------------------------------------- C11
\* The step shows the validation notification of a list name and does
\* nothing else.
RejectsName ==
  /\ tasks' = tasks
  /\ toasts' = <<"Nome obrigatorio">>
  /\ UNCHANGED <<dbVars, local, listsQ, itemsQ>>

\* C11: createList and updateList with a blank name send nothing, show the
\* validation notification and change no state; with a name that is not
\* blank createList sends exactly one insert and updateList exactly one
\* update of the row being edited, each carrying the name without the blanks
\* at its ends.
C11_ListNameValidated ==
  [][ /\ (createList /\ Blank(newListName)) => RejectsName
      /\ (updateList /\ Blank(editingListName)) => RejectsName
      /\ (createList /\ ~Blank(newListName)) =>
           /\ SendsOne
           /\ Sent.tbl = "shopping_lists" /\ Sent.verb = "insert"
           /\ Trimmed(newListName, Sent.row.name)
           /\ UNCHANGED <<dbVars, local, listsQ, itemsQ>>
      /\ (updateList /\ ~Blank(editingListName)) =>
           /\ SendsOne
           /\ Sent.tbl = "shopping_lists" /\ Sent.verb = "update"
           /\ Sent.col = "id" /\ Sent.key = editingListId
           /\ Trimmed(editingListName, Sent.row.name)
           /\ UNCHANGED <<dbVars, local, listsQ, itemsQ>>
    ]_vars

\* A rename typed with blanks around it reached the store trimmed, and a
\* blank name for a new list has just been rejected.
C11_Witness ==
  /\ \E r \in 1..Len(dbLists) :
       dbLists[r].id = 1 /\ dbLists[r].name = <<"a">>
  /\ toasts = <<"Nome obrigatorio">>
  /\ newListName = <<>>
  /\ Len(dbLists) = 1

\* -------------------------------------------------------------------- C12
\* C12: the continuation of a createList whose insert succeeded sets the
\* active list to the id of the row the insert returned and clears the
\* list-name input, in that same step, whether or not the lists feed has
\* delivered the row; no other step than a user's click and the continuation
\* of createList makes the active list a list.
C12_CreateListSwitchesAtOnce ==
  [][ /\ \A i \in 1..Len(tasks) :
           (tasks[i].h = "createList" /\ tasks[i].pc = "answered"
              /\ ~tasks[i].error
              /\ (\A j \in 1..Len(tasks') : tasks'[j] # tasks[i])
              /\ createListDone) =>
             /\ currentListId' = tasks[i].data[1].id
             /\ newListName' = <<>>
             /\ lists' = lists
      /\ (currentListId' # currentListId /\ currentListId' # NULL
            /\ clicks' = clicks) => createListDone
    ]_vars

\* The view is on the list just created, its name input cleared, while the
\* lists sequence does not hold the row yet.
C12_Witness ==
  /\ toasts = <<"Lista criada">>
  /\ currentListId \in Ids(dbLists)
  /\ currentListId \notin Ids(lists)
  /\ newListName = <<>>
  /\ listsQ # <<>>

\* -------------------------------------------------------------------- C13
RECURSIVE Flatten(_)
Flatten(groups) ==
  IF groups = <<>> THEN <<>> ELSE Head(groups).items \o Flatten(Tail(groups))

Occurrences(rows, r) == Cardinality({k \in 1..Len(rows) : rows[k] = r})

\* C13: the groups have distinct keys, every row of a group has the group's
\* key as its category, the concatenation of the groups holds every row as
\* many times as items does (each entry is in exactly one group, once), and
\* grouping that concatenation gives the same groups.
C13_GroupingPartitions ==
  LET groups == groupedItems IN
  /\ \A g, h \in 1..Len(groups) :
       groups[g].category = groups[h].category => g = h
  /\ \A g \in 1..Len(groups) : \A k \in 1..Len(groups[g].items) :
       groups[g].items[k].category = groups[g].category
  /\ Len(Flatten(groups)) = Len(items)
  /\ \A k \in 1..Len(items) :
       Occurrences(Flatten(groups), items[k]) = Occurrences(items, items[k])
  /\ reduceItems(<<>>, Flatten(groups)) = groups

\* Three rows of two categories, interleaved: the concatenation of the two
\* groups is another order of the same rows.
C13_Witness ==
  /\ Len(items) = 3
  /\ Len(groupedItems) = 2
  /\ Flatten(groupedItems) # items
  /\ itemsQ = <<>>

\* -------------------------------------------------------------------- C14
OfCategory(rows, category) ==
  SelectSeq(rows, LAMBDA r : r.category = category)

First(rows, category) ==
  CHOOSE k \in 1..Len(rows) :
    /\ rows[k].category = category
    /\ \A j \in 1..(k - 1) : rows[j].category # category

\* C14: no group is empty, every category of items has its group, the groups
\* are in the order in which their categories first occur in items, and a
\* group is the subsequence of items of its category.
C14_GroupOrder ==
  LET groups == groupedItems IN
  /\ \A g \in 1..Len(groups) : groups[g].items # <<>>
  /\ \A k \in 1..Len(items) :
       \E g \in 1..Len(groups) : groups[g].category = items[k].category
  /\ \A g \in 1..Len(groups) :
       groups[g].items = OfCategory(items, groups[g].category)
  /\ \A g, h \in 1..Len(groups) :
       g < h => First(items, groups[g].category)
                  < First(items, groups[h].category)

\* The second label of the fixed list occurs first in items: its group is
\* displayed first, and holds two rows with a row of the other label between.
C14_Witness ==
  /\ Len(items) = 3
  /\ items[2].category = CATEGORIES[1]
  /\ Len(groupedItems) = 2
  /\ groupedItems[1].category = CATEGORIES[2]
  /\ Len(groupedItems[1].items) = 2
  /\ groupedItems[1].items[1].id # groupedItems[1].items[2].id

\* -------------------------------------------------------------------- C15
ItemInserts ==
  {i \in 1..Len(tasks) :
     tasks[i].req.tbl = "shopping_items" /\ tasks[i].req.verb = "insert"}

\* C15: the quantity held by the form is at least 1 after any edits of the
\* quantity field, and so is the quantity of every insert sent and of every
\* row stored.
C15_QuantityPositive ==
  /\ newItemQuantity >= 1
  /\ \A i \in ItemInserts : tasks[i].req.row.quantity >= 1
  /\ \A r \in 1..Len(dbItems) : dbItems[r].quantity >= 1

Quiet == tasks = <<>> /\ listsQ = <<>> /\ itemsQ = <<>>

\* rows holds exactly the rows of table, each once.
Mirrors(rows, table) ==
  /\ Len(rows) = Len(table)
  /\ \A r \in 1..Len(table) : Occurrences(rows, table[r]) = 1

RowsOfList(id) == SelectSeq(dbItems, LAMBDA r : r.list_id = id)

\* C17: whenever every remote call has completed and every feed event has
\* been handled, lists holds exactly the remote lists, each once, and, while
\* a list is active, items holds exactly the remote rows of that list, each
\* once.
C17_QuietIsConsistent ==
  Quiet =>
    /\ Mirrors(lists, dbLists)
    /\ currentListId # NULL => Mirrors(items, RowsOfList(currentListId))

\* -------------------------------------------------------------------- C18
\* C18: a step that changes the active list (and so closes the items
\* channel) leaves every call in flight where it is; a call leaves the calls
\* in flight only through its own continuation, after it was answered; and
\* the continuation of a call that succeeded applies its effects whatever
\* the active list is by then: fetchItems replaces items, addItem clears the
\* form and notifies, deleteItem notifies.
C18_NoCancellation ==
  [][ /\ (currentListId' # currentListId /\ clicks' # clicks) =>
           /\ Len(tasks') >= Len(tasks)
           /\ SubSeq(tasks', 1, Len(tasks)) = tasks
      /\ Len(tasks') < Len(tasks) =>
           \E i \in 1..Len(tasks) : Ends(i)
      /\ \A i \in 1..Len(tasks) :
           tasks[i].pc = "sent" =>
             \E j \in 1..Len(tasks') :
               tasks'[j].h = tasks[i].h /\ tasks'[j].req = tasks[i].req
      /\ \A i \in 1..Len(tasks) :
           (~tasks[i].error /\ Ends(i)) =>
             CASE tasks[i].h = "fetchItems" -> items' = Snapshot(tasks[i])
               [] tasks[i].h = "addItem" ->
                    /\ newItemName' = <<>>
                    /\ newItemCategory' = ""
                    /\ newItemQuantity' = 1
                    /\ toasts' = <<"Item adicionado">>
               [] tasks[i].h = "deleteItem" -> toasts' = <<"Item removido">>
               [] OTHER -> TRUE
    ]_vars

\* The user went back to the lists while deleteItem was in flight; the call
\* was executed and its continuation has just notified the removal.
C18_Witness ==
  /\ toasts = <<"Item removido">>
  /\ currentListId = NULL
  /\ 1 \notin Ids(dbItems)

\* -------------------------------------------------------------------- C19
FetchListsAnswered ==
  \E i \in 1..Len(tasks) :
    tasks[i].h = "fetchLists" /\ tasks[i].pc = "answered"

\* C19: while loading is true the fetch of mount is in flight and the user
\* has done nothing; loading becomes false exactly in the step that completes
\* fetchLists, after a success and after an error alike; once false it stays
\* false; and once fetchLists is answered, loading does become false.
C19_LoadingEnds ==
  /\ [](loading => clicks = 0 /\ Len(tasks) = 1 /\ tasks[1].h = "fetchLists")
  /\ [][ /\ ~loading => ~loading'
         /\ (loading /\ ~loading') => fetchListsDone
         /\ fetchListsDone => ~loading'
       ]_vars
  /\ (FetchListsAnswered ~> ~loading)

\* fetchLists failed: the failure was reported, the lists are empty, and the
\* lists view is shown, not the loading view.
C19_Witness ==
  /\ ~loading
  /\ toasts = <<"Erro">>
  /\ clicks = 0
  /\ lists = <<>>
  /\ dbLists # <<>>

\* -------------------------------------------------------------------- C20
\* C20: a feed INSERT event whose row belongs to another list than the
\* active one is not added to items: every row the feed adds to items has
\* the active list as its list_id.
C20_FeedKeepsToActiveList ==
  [][ (HandlesItem("INSERT") /\ Head(itemsQ).new.list_id # currentListId) =>
        items' = items
    ]_vars

\* -------------------------------------------------------------------- C21
\* C21: the completion of a fetchItems issued for a list that is not the
\* active list when it completes leaves items as it is: the items shown for
\* list B are never replaced by the answer to the fetch of list A.
C21_FetchAppliesToItsList ==
  [][ \A i \in 1..Len(tasks) :
        (tasks[i].h = "fetchItems" /\ Ends(i) /\ currentListId # NULL
           /\ tasks[i].cur # currentListId) =>
          items' = items
    ]_vars

\* -------------------------------------------------------------------- C22
\* C22: the active list is null or the id of a row of the local lists
\* sequence, in every reachable state.
C22_ActiveListIsListed ==
  currentListId = NULL \/ currentListId \in Ids(lists)

\* -------------------------------------------------------------------- C23
NoDup(rows) ==
  \A j, k \in 1..Len(rows) : rows[j].id = rows[k].id => j = k

Executes(i) ==
  /\ tasks[i].pc = "sent"
  /\ Len(tasks') = Len(tasks)
  /\ tasks'[i].pc = "answered"
  /\ ~tasks'[i].error

\* C24: every toggle the store executes flips the remote bought flag of its
\* row (so the flag after n completed toggles of a row is its initial value
\* for n even, the negation for n odd), whether or not the feed event of the
\* previous toggle was handled before the click.
C24_ToggleFlipsRemote ==
  [][ \A i \in 1..Len(tasks) :
        (tasks[i].h = "toggleItem" /\ Executes(i)) =>
          /\ Len(dbItems') = Len(dbItems)
          /\ \A r \in 1..Len(dbItems) :
               dbItems[r].id = tasks[i].id =>
                 dbItems'[r].bought = ~dbItems[r].bought
    ]_vars

\* -------------------------------------------------------------------- C25
\* q2 is q with events added at its end.
Extends(q2, q) == Len(q2) >= Len(q) /\ SubSeq(q2, 1, Len(q)) = q

\* C25: the items channel holds no event while no list is active; a change
\* of a remote item then reaches neither the channel nor items; every change
\* of the active list removes the channel of the previous one with what was
\* pending on it, and the channel of the new list starts empty, so that at
\* most one items subscription delivers.  The lists channel is never removed:
\* every change of the remote lists is published to it, and an event leaves
\* it only by being handled.
C25_Subscriptions ==
  /\ [](currentListId = NULL => itemsQ = <<>>)
  /\ [][ /\ currentListId' # currentListId => itemsQ' = <<>>
         /\ (currentListId = NULL /\ dbItems' # dbItems) =>
              itemsQ' = <<>> /\ items' = items
         /\ itemsQ' # itemsQ =>
              \/ currentListId' # currentListId
              \/ itemsFeed /\ itemsQ' = Tail(itemsQ)
              \/ currentListId # NULL /\ Extends(itemsQ', itemsQ)
         /\ listsQ' # listsQ =>
              \/ listsFeed /\ listsQ' = Tail(listsQ)
              \/ Extends(listsQ', listsQ)
         /\ dbLists' # dbLists => Len(listsQ') > Len(listsQ)
       ]_vars

\* The user left list 1 and deleted it: its item went with it while no items
\* channel was open, and the items sequence still holds the row.
C25_Witness ==
  /\ currentListId = NULL
  /\ tasks = <<>>
  /\ dbItems = <<>>
  /\ items # <<>>
  /\ listsQ = <<>>

\* -------------------------------------------------------------------- C26
\* C26: while no list is active the items sequence is empty, in every
\* reachable state.
C26_NoListNoItems == currentListId = NULL => items = <<>>

\* -------------------------------------------------------------------- C27
\* Every row of next was a row of prev or is the row the event carries, put
\* where prev held a row of its id.
NoRowAdded(prev, event, next) ==
  /\ Len(next) <= Len(prev)
  /\ \A j \in 1..Len(next) :
       \/ \E k \in 1..Len(prev) : next[j] = prev[k]
       \/ next[j] = event.new /\ event.new.id \in Ids(prev)

FrameUpdate(prev, event, next) ==
  /\ NoRowAdded(prev, event, next)
  /\ event.new.id \notin Ids(prev) => next = prev
  /\ Len(next) = Len(prev)
  /\ \A k \in 1..Len(prev) :
       /\ next[k].id = prev[k].id
       /\ prev[k].id # event.new.id => next[k] = prev[k]

FrameDelete(prev, event, next) ==
  /\ NoRowAdded(prev, event, next)
  /\ event.old.id \notin Ids(prev) => next = prev
  /\ event.old.id \notin Ids(next)
  /\ next = Without(prev, event.old.id)

\* C27: handling a feed UPDATE or DELETE event never adds a row: an UPDATE
\* for an id the sequence does not hold leaves it as it is, and so does such
\* a DELETE; an UPDATE keeps the length of the sequence and the order of its
\* identifiers and changes only rows of its id; a DELETE keeps the other
\* rows, in their order.  For the lists feed and the items feed alike.
C27_UpdateDeleteFrame ==
  [][ /\ HandlesItem("UPDATE") => FrameUpdate(items, Head(itemsQ), items')
      /\ HandlesItem("DELETE") => FrameDelete(items, Head(itemsQ), items')
      /\ HandlesList("UPDATE") => FrameUpdate(lists, Head(listsQ), lists')
      /\ HandlesList("DELETE") => FrameDelete(lists, Head(listsQ), lists')
    ]_vars

\* An UPDATE event is pending for an id that the items sequence, of MaxLen
\* rows, does not hold.
C27_Witness ==
  /\ Len(items) = MaxLen
  /\ Len(itemsQ) = 1
  /\ Head(itemsQ).eventType = "UPDATE"
  /\ Head(itemsQ).new.id \notin Ids(items)

\* -------------------------------------------------------------------- C28
\* The store gives identifiers in the order of creation: newest first is
\* identifiers descending.
NewestFirst(rows) ==
  \A k \in 1..(Len(rows) - 1) : rows[k].id >= rows[k + 1].id

====
